---- MODULE Spec2Model ----
(***************************************************************************)
(* Ethernet II header / frame codec (src/src/lib.rs).                      *)
(*                                                                         *)
(* Byte buffers are sequences of naturals below 256.  Offsets are 0-based  *)
(* as in the source; SubSeq is 1-based, hence the "+ 1" in the slicing.    *)
(* Every codec is a pure function; the state machine is a caller that      *)
(* holds an input buffer and a frame value and applies the codecs to them. *)
(***************************************************************************)
EXTENDS Integers, Sequences, FiniteSets, TLC

VARIABLES
    macCodec,   \* how the MAC address type (mac_parser) moves its 6 bytes
    bytes,      \* the caller's input buffer
    given,      \* a frame the caller constructed directly
    call,       \* the last operation called
    val,        \* the value handed to the last encode
    origin,     \* where val came from: "decoded" (from bytes) or "constructed"
    buf0,       \* the destination buffer before the last encode
    buf,        \* the destination buffer after the last encode
    ret         \* what the last operation returned

vars == <<macCodec, bytes, given, call, val, origin, buf0, buf, ret>>

-----------------------------------------------------------------------------
(* Bounds of the model *)

MaxPayload == 2     \* longest payload of an input / constructed frame
MaxSlack == 1       \* destination buffers reach HEADER_LENGTH + MaxPayload + MaxSlack

(* Program constant *)
HEADER_LENGTH == 14

-----------------------------------------------------------------------------
(* Input alphabet *)

DstMACs == { <<0, 128, 65, 255, 240, 13>>, <<255, 255, 255, 255, 255, 255>> }
SrcMACs == { <<0, 128, 65, 186, 190, 255>>, <<2, 0, 0, 0, 0, 1>> }
\* bytes 12-13: IPv4 and IPv6 (known), 0x08DD and 0xFFFE (no protocol name)
EtherBytes == { <<8, 0>>, <<134, 221>>, <<8, 221>>, <<255, 254>> }
PayloadBytes == {170, 187}

Payloads == UNION { [1..n -> PayloadBytes] : n \in 0..MaxPayload }

Zeros(n) == [i \in 1..n |-> 0]
\* a destination buffer as the caller hands it over: n bytes of 0xEE
Filled(n) == [i \in 1..n |-> 238]

-----------------------------------------------------------------------------
(* scroll::Error values and results *)

BadOffset(o) == [kind |-> "BadOffset", size |-> o, len |-> 0, msg |-> ""]
TooBig(s, l) == [kind |-> "TooBig", size |-> s, len |-> l, msg |-> ""]
BadInput(s, m) == [kind |-> "BadInput", size |-> s, len |-> 0, msg |-> m]

\* Result<(T, usize), Error> of a read
Ok(v, n) == [ok |-> TRUE, val |-> v, size |-> n]
Err(e) == [ok |-> FALSE, err |-> e]

\* Result<usize, Error> of a write, together with the destination afterwards
WOk(n, b) == [ok |-> TRUE, size |-> n, buf |-> b]
WErr(e, b) == [ok |-> FALSE, err |-> e, buf |-> b]

\* Option<T>
Some(v) == [some |-> TRUE, val |-> v]
None == [some |-> FALSE]

\* the `?` operator: an Err returns at once, an Ok value goes on into `rest`
Try(r, rest(_)) == IF r.ok THEN rest(r) ELSE r

\* Result::ok() of a read
ok(r) == IF r.ok THEN Some(r.val) ELSE None

\* Result::ok().map(|_| ()) of a write, together with the destination afterwards
ok_unit(w) == [opt |-> IF w.ok THEN Some(<<>>) ELSE None, buf |-> w.buf]

\* Option::unwrap(): the value, or a panic
unwrap(o) == IF o.some THEN [panic |-> FALSE, val |-> o.val] ELSE [panic |-> TRUE]

\* Result::unwrap() of a write into a local buffer, which is then returned
unwrap_buf(w) == IF w.ok THEN [panic |-> FALSE, val |-> w.buf] ELSE [panic |-> TRUE]

-----------------------------------------------------------------------------
(* scroll: Pread / Pwrite on [u8] *)

\* &buf[offset..]
From(buffer, offset) == SubSeq(buffer, offset + 1, Len(buffer))

\* from.gread_with(&mut offset, ctx): scroll refuses an offset that is not
\* inside the buffer, an offset equal to its length included; otherwise the
\* result is `read`, what the value's try_from_ctx returns on from[offset..]
\* (the caller adds the size read to its offset)
Gread(from, offset, read) ==
    IF offset >= Len(from)
    THEN Err(BadOffset(offset))
    ELSE read

\* the destination once the write into dst[offset..] has returned w
Spliced(head, w) == [w EXCEPT !.buf = head \o w.buf]

\* buf.pwrite_with(n, offset, ctx): scroll refuses an offset that is not
\* inside the buffer, an offset equal to its length included (also when
\* nothing is to be written); otherwise the result is `written`, what the
\* value's try_into_ctx returns on buf[offset..]
Pwrite(dst, offset, written) ==
    IF offset >= Len(dst)
    THEN WErr(BadOffset(offset), dst)
    ELSE Spliced(SubSeq(dst, 1, offset), written)

\* <&[u8] as TryFromCtx<usize>>::try_from_ctx
SliceTryFromCtx(from, size) ==
    IF size > Len(from)
    THEN Err(TooBig(size, Len(from)))
    ELSE Ok(SubSeq(from, 1, size), size)

\* <&[u8] as TryIntoCtx>::try_into_ctx
SliceTryIntoCtx(src, dst) ==
    IF Len(src) > Len(dst)
    THEN WErr(TooBig(Len(src), Len(dst)), dst)
    ELSE WOk(Len(src), src \o SubSeq(dst, Len(src) + 1, Len(dst)))

\* <u16 as TryFromCtx<Endian>>::try_from_ctx with Endian::Big
U16TryFromCtxBig(from) ==
    IF 2 > Len(from)
    THEN Err(TooBig(2, Len(from)))
    ELSE Ok(from[1] * 256 + from[2], 2)

\* <u16 as TryIntoCtx<Endian>>::try_into_ctx with Endian::Big
U16TryIntoCtxBig(n, dst) ==
    IF 2 > Len(dst)
    THEN WErr(TooBig(2, Len(dst)), dst)
    ELSE WOk(2, <<(n \div 256) % 256, n % 256>> \o SubSeq(dst, 3, Len(dst)))

-----------------------------------------------------------------------------
(* Collaborators: the MAC address and EtherType value types.               *)
(* Both live in crates of their own.  A MACAddress is 6 raw bytes; scroll   *)
(* moves such a value either as one slice (length checked, then copied) or  *)
(* byte by byte (each byte through gread / gwrite), and the two differ in   *)
(* the error returned and in what a failed write leaves behind.  Which one  *)
(* the MAC type uses is fixed per behaviour and left open: macCodec.        *)

MacCodecs == {"slice", "array"}

\* MACAddress::try_from_ctx: 6 raw bytes, either as one slice or byte by byte
MacTryFromCtx(from) ==
    IF macCodec = "slice"
    THEN Gread(from, 0, SliceTryFromCtx(From(from, 0), 6))
    ELSE IF Len(from) < 6
         THEN Err(BadOffset(Len(from)))
         ELSE Ok(SubSeq(from, 1, 6), 6)

\* MACAddress::try_into_ctx: 6 raw bytes, either as one slice or byte by byte
MacTryIntoCtx(mac, dst) ==
    IF macCodec = "slice"
    THEN Pwrite(dst, 0, SliceTryIntoCtx(mac, From(dst, 0)))
    ELSE IF Len(dst) < 6
         THEN WErr(BadOffset(Len(dst)), SubSeq(mac, 1, Len(dst)))
         ELSE WOk(6, mac \o SubSeq(dst, 7, Len(dst)))

KnownEtherTypes == [IPv4 |-> 2048, ARP |-> 2054, IPv6 |-> 34525]

\* EtherType::from_bits: a known protocol, or Unknown carrying the raw bits
from_bits(bits) ==
    IF \E k \in DOMAIN KnownEtherTypes : KnownEtherTypes[k] = bits
    THEN [variant |-> CHOOSE k \in DOMAIN KnownEtherTypes : KnownEtherTypes[k] = bits,
          bits |-> 0]
    ELSE [variant |-> "Unknown", bits |-> bits]

\* EtherType::into_bits
into_bits(ether_type) ==
    IF ether_type.variant = "Unknown"
    THEN ether_type.bits
    ELSE KnownEtherTypes[ether_type.variant]

-----------------------------------------------------------------------------
(* Ethernet2Header *)

\* Mutant: the EtherType is read at the offset left after dst, not after src
HeaderTryFromCtx_StaleOffset(from) ==
    Try(Gread(from, 0, MacTryFromCtx(From(from, 0))), LAMBDA dst :
    Try(Gread(from, dst.size, MacTryFromCtx(From(from, dst.size))), LAMBDA src :
    Try(Gread(from, dst.size, U16TryFromCtxBig(From(from, dst.size))), LAMBDA bits :
        Ok([dst |-> dst.val, src |-> src.val, ether_type |-> from_bits(bits.val)],
           dst.size + bits.size))))

\* <Ethernet2Header as TryFromCtx>::try_from_ctx
HeaderTryFromCtx(from) ==
    Try(Gread(from, 0, MacTryFromCtx(From(from, 0))), LAMBDA dst :
    Try(Gread(from, dst.size, MacTryFromCtx(From(from, dst.size))), LAMBDA src :
    Try(Gread(from, dst.size + src.size,
              U16TryFromCtxBig(From(from, dst.size + src.size))), LAMBDA bits :
        Ok([dst |-> dst.val, src |-> src.val, ether_type |-> from_bits(bits.val)],
           dst.size + src.size + bits.size))))

\* Mutant: src is written before dst
HeaderTryIntoCtx_SrcFirst(self, buf_) ==
    Try(Pwrite(buf_, 0, MacTryIntoCtx(self.src, From(buf_, 0))), LAMBDA w1 :
    Try(Pwrite(w1.buf, w1.size, MacTryIntoCtx(self.dst, From(w1.buf, w1.size))), LAMBDA w2 :
    Try(Pwrite(w2.buf, w1.size + w2.size,
               U16TryIntoCtxBig(into_bits(self.ether_type),
                                From(w2.buf, w1.size + w2.size))), LAMBDA w3 :
        WOk(w1.size + w2.size + w3.size, w3.buf))))

\* <Ethernet2Header as TryIntoCtx>::try_into_ctx
HeaderTryIntoCtx(self, buf_) ==
    Try(Pwrite(buf_, 0, MacTryIntoCtx(self.dst, From(buf_, 0))), LAMBDA w1 :
    Try(Pwrite(w1.buf, w1.size, MacTryIntoCtx(self.src, From(w1.buf, w1.size))), LAMBDA w2 :
    Try(Pwrite(w2.buf, w1.size + w2.size,
               U16TryIntoCtxBig(into_bits(self.ether_type),
                                From(w2.buf, w1.size + w2.size))), LAMBDA w3 :
        WOk(w1.size + w2.size + w3.size, w3.buf))))

\* bytes.pread::<Ethernet2Header>(0)
HeaderPread(from) == Gread(from, 0, HeaderTryFromCtx(From(from, 0)))

\* buf.pwrite(header, 0)
HeaderPwrite(self, dst) == Pwrite(dst, 0, HeaderTryIntoCtx(self, From(dst, 0)))

\* Ethernet2Header::from_bytes
Header_from_bytes(from) == ok(HeaderPread(from))

\* Ethernet2Header::from_fixed_bytes
Header_from_fixed_bytes(from) == unwrap(Header_from_bytes(from))

\* Ethernet2Header::to_bytes: the Option returned and the buffer afterwards
Header_to_bytes(self, dst) == ok_unit(HeaderPwrite(self, dst))

\* Ethernet2Header::to_fixed_bytes: the local buffer after the write, or a panic
Header_to_fixed_bytes(self) ==
    unwrap_buf(HeaderPwrite(self, Zeros(HEADER_LENGTH)))

-----------------------------------------------------------------------------
(* Ethernet2Frame *)

\* Ethernet2Frame::length_in_bytes
length_in_bytes(self) == HEADER_LENGTH + Len(self.payload)

NoBody == BadInput(0, "Ethernet frame has no body.")

\* Mutant: the length check is strict, so a bare 14-byte header passes it
FrameTryFromCtx_Strict(from) ==
    IF Len(from) < 14
    THEN Err(NoBody)
    ELSE Try(Gread(from, 0, HeaderTryFromCtx(From(from, 0))), LAMBDA header :
         Try(Gread(from, header.size,
                   SliceTryFromCtx(From(from, header.size),
                                   Len(from) - HEADER_LENGTH)),
             LAMBDA payload :
             Ok([header |-> header.val, payload |-> payload.val],
                header.size + payload.size)))

\* <Ethernet2Frame as TryFromCtx>::try_from_ctx
FrameTryFromCtx(from) ==
    IF Len(from) <= 14
    THEN Err(NoBody)
    ELSE Try(Gread(from, 0, HeaderTryFromCtx(From(from, 0))), LAMBDA header :
         Try(Gread(from, header.size,
                   SliceTryFromCtx(From(from, header.size),
                                   Len(from) - HEADER_LENGTH)),
             LAMBDA payload :
             Ok([header |-> header.val, payload |-> payload.val],
                header.size + payload.size)))

\* Mutant: the payload is written with pwrite at offset 0, over the header
FrameTryIntoCtx_PayloadAtZero(self, buf_) ==
    Try(Pwrite(buf_, 0, HeaderTryIntoCtx(self.header, From(buf_, 0))), LAMBDA w1 :
    Try(Pwrite(w1.buf, 0, SliceTryIntoCtx(self.payload, From(w1.buf, 0))),
        LAMBDA w2 : WOk(w1.size + w2.size, w2.buf)))

\* <Ethernet2Frame as TryIntoCtx>::try_into_ctx
FrameTryIntoCtx(self, buf_) ==
    Try(Pwrite(buf_, 0, HeaderTryIntoCtx(self.header, From(buf_, 0))), LAMBDA w1 :
    Try(Pwrite(w1.buf, w1.size, SliceTryIntoCtx(self.payload, From(w1.buf, w1.size))),
        LAMBDA w2 : WOk(w1.size + w2.size, w2.buf)))

\* bytes.pread::<Ethernet2Frame>(0)
FramePread(from) == Gread(from, 0, FrameTryFromCtx(From(from, 0)))

\* buf.pwrite(frame, 0)
FramePwrite(self, dst) == Pwrite(dst, 0, FrameTryIntoCtx(self, From(dst, 0)))

\* Ethernet2Frame::from_bytes
Frame_from_bytes(from) == ok(FramePread(from))

\* Ethernet2Frame::to_bytes: the Option returned and the buffer afterwards
Frame_to_bytes(self, dst) == ok_unit(FramePwrite(self, dst))

-----------------------------------------------------------------------------
(* OwnedEthernet2Frame *)

\* <[u8]>::to_vec: a fresh Vec holding a copy of the slice
to_vec(slice) == [i \in 1..Len(slice) |-> slice[i]]

\* Vec::as_slice: a view of the Vec's elements
as_slice(vec) == SubSeq(vec, 1, Len(vec))

\* Mutant: the owned payload is a fresh empty Vec, the bytes are never copied
OwnedTryFromCtx_EmptyVec(from) ==
    Try(Gread(from, 0, FrameTryFromCtx(From(from, 0))), LAMBDA ethernet_frame :
        Ok([header |-> ethernet_frame.val.header, payload |-> <<>>],
           ethernet_frame.size))

\* <OwnedEthernet2Frame as TryFromCtx>::try_from_ctx
OwnedTryFromCtx(from) ==
    Try(Gread(from, 0, FrameTryFromCtx(From(from, 0))), LAMBDA ethernet_frame :
        Ok([header |-> ethernet_frame.val.header,
            payload |-> to_vec(ethernet_frame.val.payload)],
           ethernet_frame.size))

\* <OwnedEthernet2Frame as TryIntoCtx>::try_into_ctx
OwnedTryIntoCtx(self, buf_) ==
    Pwrite(buf_, 0,
           FrameTryIntoCtx([header |-> self.header,
                            payload |-> as_slice(self.payload)], From(buf_, 0)))

\* bytes.pread::<OwnedEthernet2Frame>(0)
OwnedPread(from) == Gread(from, 0, OwnedTryFromCtx(From(from, 0)))

\* buf.pwrite(owned_frame, 0)
OwnedPwrite(self, dst) == Pwrite(dst, 0, OwnedTryIntoCtx(self, From(dst, 0)))

-----
(* The caller *)

HeaderDecodes == {"Header::from_bytes", "Header::from_fixed_bytes", "Header::pread"}
FrameDecodes == {"Frame::from_bytes", "Frame::try_from_ctx"}
OwnedDecodes == {"Owned::pread"}
HeaderEncodes == {"Header::to_bytes", "Header::to_fixed_bytes", "Header::pwrite"}
FrameEncodes == {"Frame::to_bytes", "Frame::pwrite"}
OwnedEncodes == {"Owned::pwrite"}

\* whether a call returned Some / Ok / did not panic
Succeeded(c, r) ==
    CASE c \in {"Header::from_bytes", "Frame::from_bytes", "Frame::from_bytes(buf)",
                "Header::to_bytes", "Frame::to_bytes"} -> r.some
      [] c \in {"Header::from_fixed_bytes", "Header::to_fixed_bytes"} -> ~r.panic
      [] c \in {"Header::pread", "Frame::try_from_ctx", "Owned::pread",
                "Header::pwrite", "Frame::pwrite", "Owned::pwrite"} -> r.ok
      [] OTHER -> FALSE

\* the values the caller hands to an encode: at first the one it constructed,
\* after a decode of the matching type the value decoded from bytes
Args(decodes, constructed) ==
    IF call = "new"
    THEN {[v |-> constructed, o |-> "constructed"]}
    ELSE IF call \in decodes /\ Succeeded(call, ret)
         THEN {[v |-> ret.val, o |-> "decoded"]}
         ELSE {}

Dests == { Filled(n) : n \in 0..(HEADER_LENGTH + MaxPayload + MaxSlack) }

Init ==
    /\ macCodec \in MacCodecs
    /\ \E d \in DstMACs, s \in SrcMACs, e \in EtherBytes, p \in Payloads :
         /\ given = [header |-> [dst |-> d, src |-> s,
                                 ether_type |-> from_bits(e[1] * 256 + e[2])],
                     payload |-> p]
         /\ \E n \in 0..(HEADER_LENGTH + Len(p)) :
              bytes = SubSeq(d \o s \o e \o p, 1, n)
    /\ call = "new"
    /\ val = <<>>
    /\ origin = "none"
    /\ buf0 = <<>>
    /\ buf = <<>>
    /\ ret = <<>>

\* a decode of bytes: records the call and what it returned
Decoded(c, r) ==
    /\ call = "new"
    /\ call' = c
    /\ ret' = r
    /\ val' = <<>>
    /\ origin' = "none"
    /\ buf0' = <<>>
    /\ buf' = <<>>
    /\ UNCHANGED <<macCodec, bytes, given>>

\* an encode of arg.v into destination d: records the call, the returned
\* value r and the destination afterwards
Encoded(c, arg, d, r, after) ==
    /\ call' = c
    /\ val' = arg.v
    /\ origin' = arg.o
    /\ buf0' = d
    /\ buf' = after
    /\ ret' = r
    /\ UNCHANGED <<macCodec, bytes, given>>

\* to_bytes returned o
EncodedOption(c, arg, d, o) == Encoded(c, arg, d, o.opt, o.buf)

\* pwrite returned w
EncodedResult(c, arg, d, w) ==
    Encoded(c, arg, d,
            IF w.ok THEN [ok |-> TRUE, size |-> w.size] ELSE [ok |-> FALSE, err |-> w.err],
            w.buf)

\* to_fixed_bytes returned r
EncodedFixed(c, arg, d, r) == Encoded(c, arg, d, r, IF r.panic THEN <<>> ELSE r.val)

HeaderFromBytes == Decoded("Header::from_bytes", Header_from_bytes(bytes))

HeaderFromFixedBytes ==
    /\ Len(bytes) = HEADER_LENGTH
    /\ Decoded("Header::from_fixed_bytes", Header_from_fixed_bytes(bytes))

HeaderPreadCall == Decoded("Header::pread", HeaderPread(bytes))

FrameFromBytes == Decoded("Frame::from_bytes", Frame_from_bytes(bytes))

FrameTryFromCtxCall == Decoded("Frame::try_from_ctx", FrameTryFromCtx(bytes))

OwnedPreadCall == Decoded("Owned::pread", OwnedPread(bytes))

HeaderToBytes ==
    \E arg \in Args(HeaderDecodes, given.header), d \in Dests :
        EncodedOption("Header::to_bytes", arg, d, Header_to_bytes(arg.v, d))

HeaderToFixedBytes ==
    \E arg \in Args(HeaderDecodes, given.header) :
        EncodedFixed("Header::to_fixed_bytes", arg, Zeros(HEADER_LENGTH),
                     Header_to_fixed_bytes(arg.v))

HeaderPwriteCall ==
    \E arg \in Args(HeaderDecodes, given.header), d \in Dests :
        EncodedResult("Header::pwrite", arg, d, HeaderPwrite(arg.v, d))

FrameToBytes ==
    \E arg \in Args(FrameDecodes, given), d \in Dests :
        EncodedOption("Frame::to_bytes", arg, d, Frame_to_bytes(arg.v, d))

FramePwriteCall ==
    \E arg \in Args(FrameDecodes, given), d \in Dests :
        EncodedResult("Frame::pwrite", arg, d, FramePwrite(arg.v, d))

OwnedPwriteCall ==
    \E arg \in Args(OwnedDecodes, [given EXCEPT !.payload = to_vec(given.payload)]),
       d \in Dests :
        EncodedResult("Owned::pwrite", arg, d, OwnedPwrite(arg.v, d))

\* the caller decodes the buffer a frame encode has just filled
FrameFromBytesOfBuf ==
    /\ call \in FrameEncodes
    /\ Succeeded(call, ret)
    /\ call' = "Frame::from_bytes(buf)"
    /\ ret' = Frame_from_bytes(buf)
    /\ UNCHANGED <<macCodec, bytes, given, val, origin, buf0, buf>>

Next ==
    \/ HeaderFromBytes
    \/ HeaderFromFixedBytes
    \/ HeaderPreadCall
    \/ FrameFromBytes
    \/ FrameTryFromCtxCall
    \/ OwnedPreadCall
    \/ HeaderToBytes
    \/ HeaderToFixedBytes
    \/ HeaderPwriteCall
    \/ FrameToBytes
    \/ FramePwriteCall
    \/ OwnedPwriteCall
    \/ FrameFromBytesOfBuf

Spec == Init /\ [][Next]_vars

-----------------------------------------------------------------------------
(* Properties *)

DestEncodes == {"Header::to_bytes", "Header::pwrite", "Frame::to_bytes",
                "Frame::pwrite", "Owned::pwrite"}

\* the wire layout of section 6: dst, src, EtherType big-endian
WireHeader(h) ==
    h.dst \o h.src \o <<into_bits(h.ether_type) \div 256, into_bits(h.ether_type) % 256>>

\* the header the wire layout assigns to the first 14 bytes of b
LayoutHeader(b) ==
    [dst |-> SubSeq(b, 1, 6), src |-> SubSeq(b, 7, 12),
     ether_type |-> from_bits(b[13] * 256 + b[14])]

\* the header handed to the last encode
EncodedHeader == IF call \in HeaderEncodes THEN val ELSE val.header

\* C1: a header decoded from a 14-byte buffer b encodes back to exactly b, by
\* to_fixed_bytes and by to_bytes / pwrite into a 14-byte buffer, for known and
\* unknown EtherType values alike.
C1_HeaderRoundTrip ==
    (call \in HeaderEncodes /\ origin = "decoded" /\ Len(bytes) = HEADER_LENGTH
        /\ Len(buf0) = HEADER_LENGTH)
    => /\ Succeeded(call, ret)
       /\ buf = bytes
       /\ call = "Header::to_fixed_bytes" => ret.val = bytes

C1_Witness ==
    /\ call = "Header::to_fixed_bytes"
    /\ origin = "decoded"
    /\ Len(bytes) = HEADER_LENGTH
    /\ val.ether_type.variant = "Unknown"
    /\ buf = bytes

\* C2: every buffer b longer than 14 bytes decodes as a frame, and encoding
\* that frame into a destination of Len(b) bytes succeeds and leaves it equal
\* to b.
C2_FrameRoundTrip ==
    /\ (call \in FrameDecodes /\ Len(bytes) > HEADER_LENGTH) => Succeeded(call, ret)
    /\ (call \in FrameEncodes /\ origin = "decoded" /\ Len(buf0) = Len(bytes))
       => (Succeeded(call, ret) /\ buf = bytes)

C2_Witness ==
    /\ call = "Frame::to_bytes"
    /\ origin = "decoded"
    /\ Len(bytes) = HEADER_LENGTH + 2
    /\ Len(buf0) = Len(bytes)
    /\ ret.some
    /\ buf = bytes

\* C3: the frame decode fails, with the NoBody error and no other, exactly when
\* the buffer has at most 14 bytes; a 15-byte buffer decodes with a 1-byte
\* payload.
C3_FrameLengthBoundary ==
    /\ call = "Frame::try_from_ctx"
       => /\ ~ret.ok <=> Len(bytes) <= HEADER_LENGTH
          /\ ~ret.ok => ret.err = NoBody
    /\ call = "Frame::from_bytes" => (~ret.some <=> Len(bytes) <= HEADER_LENGTH)
    /\ (call \in FrameDecodes /\ Len(bytes) = HEADER_LENGTH + 1)
       => (Succeeded(call, ret) /\ Len(ret.val.payload) = 1)

C3_Witness ==
    /\ call = "Frame::try_from_ctx"
    /\ Len(bytes) = HEADER_LENGTH
    /\ ~ret.ok
    /\ ret.err = NoBody

\* C4: the header decode fails exactly when the buffer has fewer than 14 bytes,
\* and on success returns what it returns for the first 14 bytes alone.
C4_HeaderLengthBoundary ==
    /\ call = "Header::from_bytes"
       => /\ ret.some <=> Len(bytes) >= HEADER_LENGTH
          /\ ret.some => ret = Header_from_bytes(SubSeq(bytes, 1, HEADER_LENGTH))
    /\ call = "Header::pread"
       => /\ ret.ok <=> Len(bytes) >= HEADER_LENGTH
          /\ ret.ok => ret = HeaderPread(SubSeq(bytes, 1, HEADER_LENGTH))

C4_Witness ==
    /\ call = "Header::from_bytes"
    /\ Len(bytes) = HEADER_LENGTH + 2
    /\ ret.some

\* C5 (as stated): a header encode fails exactly when the destination has
\* fewer than 14 bytes, and a frame encode (borrowed or owned) fails exactly
\* when the destination has fewer than length_in_bytes() bytes.
C5_EncodeFailsIffTooShort ==
    /\ call \in {"Header::to_bytes", "Header::pwrite"}
       => (~Succeeded(call, ret) <=> Len(buf0) < HEADER_LENGTH)
    /\ call \in FrameEncodes \cup OwnedEncodes
       => (~Succeeded(call, ret) <=> Len(buf0) < length_in_bytes(val))

\* C6 (as stated): a failed encode leaves the destination buffer as it was.
C6_NoPartialWrite ==
    (call \in DestEncodes /\ ~Succeeded(call, ret)) => buf = buf0

\* C6 (amended): a failed encode keeps the destination's length and writes no
\* byte at offset 14 or beyond; below offset 14 a byte is either untouched or
\* the header's wire byte for that offset.  The prefix is in fact written: dst
\* when the destination has at least 6 bytes, the whole header when it has at
\* least 14.
C6_PartialWriteIsHeaderPrefix ==
    (call \in DestEncodes /\ ~Succeeded(call, ret))
    => /\ Len(buf) = Len(buf0)
       /\ \A i \in 1..Len(buf) :
            \/ buf[i] = buf0[i]
            \/ i <= HEADER_LENGTH /\ buf[i] = WireHeader(EncodedHeader)[i]
       /\ Len(buf0) >= 6 => SubSeq(buf, 1, 6) = EncodedHeader.dst
       /\ Len(buf0) >= HEADER_LENGTH
          => SubSeq(buf, 1, HEADER_LENGTH) = WireHeader(EncodedHeader)

C6_Witness ==
    /\ call = "Frame::to_bytes"
    /\ ~ret.some
    /\ Len(val.payload) = 2
    /\ Len(buf0) = HEADER_LENGTH + 1
    /\ buf # buf0

\* C7: the owned decode returns what the borrowed decode returns on the same
\* buffer (success or the same error, equal header, equal payload bytes, same
\* consumed length), and the owned encode returns what the borrowed encode of
\* the same header and payload returns and leaves the same destination.
C7_OwnedBorrowedEquivalence ==
    /\ call = "Owned::pread"
       => /\ ret = FramePread(bytes)
          /\ ret.ok <=> Frame_from_bytes(bytes).some
    /\ call = "Owned::pwrite"
       => /\ ret.ok = FramePwrite(val, buf0).ok
          /\ ret.ok => ret.size = FramePwrite(val, buf0).size
          /\ ~ret.ok => ret.err = FramePwrite(val, buf0).err
          /\ buf = FramePwrite(val, buf0).buf

C7_Witness ==
    /\ call = "Owned::pread"
    /\ ret.ok
    /\ Len(ret.val.payload) = 2

\* C8: a buffer b longer than 14 bytes decodes to dst = b[0..6], src = b[6..12],
\* ether_type = the EtherType of b[12] * 256 + b[13], payload = b[14..], and
\* both the consumed length and length_in_bytes() equal Len(b).
C8_WireLayout ==
    (call \in FrameDecodes \cup OwnedDecodes /\ Len(bytes) > HEADER_LENGTH)
    => /\ Succeeded(call, ret)
       /\ ret.val.header = LayoutHeader(bytes)
       /\ ret.val.payload = SubSeq(bytes, HEADER_LENGTH + 1, Len(bytes))
       /\ length_in_bytes(ret.val) = Len(bytes)
       /\ call \in {"Frame::try_from_ctx", "Owned::pread"} => ret.size = Len(bytes)

C8_Witness ==
    /\ call = "Frame::try_from_ctx"
    /\ Len(bytes) = HEADER_LENGTH + 2
    /\ ret.ok
    /\ ret.val.header.dst # ret.val.header.src
    /\ ret.size = Len(bytes)

\* C9 (as stated): a failed encode returns a failure value that differs from
\* the one a failed decode returns.
C9_FailuresDistinguishable ==
    /\ (call = "Header::to_bytes" /\ ~ret.some /\ ~Header_from_bytes(bytes).some)
       => ret # Header_from_bytes(bytes)
    /\ (call = "Frame::to_bytes" /\ ~ret.some /\ ~Frame_from_bytes(bytes).some)
       => ret # Frame_from_bytes(bytes)
    /\ (call = "Header::pwrite" /\ ~ret.ok /\ ~HeaderPread(bytes).ok)
       => ret.err # HeaderPread(bytes).err

\* C9 (amended): every failure is reported to the caller; from_bytes and
\* to_bytes report each of them as None, whatever the condition.  Through the
\* scroll traits only NoBody is told apart: the frame decode fails with NoBody
\* and nothing else, and no header decode and no encode fails with NoBody.
C9_OnlyNoBodyIsDistinct ==
    /\ call = "Header::from_bytes" => (ret = None <=> ~HeaderPread(bytes).ok)
    /\ call = "Frame::from_bytes" => (ret = None <=> ~FramePread(bytes).ok)
    /\ call = "Header::to_bytes" => (ret = None <=> ~HeaderPwrite(val, buf0).ok)
    /\ call = "Frame::to_bytes" => (ret = None <=> ~FramePwrite(val, buf0).ok)
    /\ (call = "Frame::try_from_ctx" /\ ~ret.ok) => ret.err = NoBody
    /\ (call \in {"Header::pread", "Header::pwrite", "Frame::pwrite", "Owned::pwrite"}
        /\ ~ret.ok) => ret.err # NoBody

C9_Witness ==
    /\ call = "Header::pwrite"
    /\ ~ret.ok
    /\ Len(buf0) = 0
    /\ ~HeaderPread(bytes).ok
    /\ ret.err = HeaderPread(bytes).err

\* C10 (as stated): a constructed frame encodes into a buffer of
\* length_in_bytes() bytes; decoding that buffer returns the frame again when
\* the payload is not empty and fails when it is empty.
C10_EncodeThenDecode ==
    /\ (call \in FrameEncodes /\ origin = "constructed"
        /\ Len(buf0) = length_in_bytes(val)) => Succeeded(call, ret)
    /\ (call = "Frame::from_bytes(buf)" /\ origin = "constructed"
        /\ Len(buf0) = length_in_bytes(val))
       => IF Len(val.payload) >= 1 THEN ret = Some(val) ELSE ret = None

====
